---- MODULE Spec2Model ----
(***************************************************************************)
(* Verification model of the fundraising backend's notification           *)
(* scheduling and invitation+donation flows.                              *)
(*                                                                         *)
(*   - content.service.ts    : upsertContent and the schedule reconciler   *)
(*   - campaign.service.ts   : invitePeopleToCampaign                      *)
(*   - notificationWorker.ts : the BullMQ worker and its dispatch          *)
(*                                                                         *)
(* JavaScript values: `undefined` is rendered by template literals as the  *)
(* text "undefined"; an optional object is a sequence of length 0 or 1.    *)
(* Strings that the code splits are sequences of one-character strings.    *)
(***************************************************************************)
EXTENDS Integers, Sequences, FiniteSets, Bags, TLC

VARIABLES
    content,      \* the Content collection: [exists, ns], ns the optional notificationStrategy
    store,        \* scheduleQueue's repeatable registrations (set of [name, jobId, pattern])
    last,         \* outcome of the latest upsertContent call (observation only)
    invitations,  \* the InvitationHistory collection (bag of records)
    donations,    \* the Transaction collection (bag of records)
    users,        \* the User collection: id -> [exists, contact, totalRaised, totalDonated, totalInvited]
    smsSent,      \* number of SMS handed to sendSMS successfully
    inviteCalls,  \* number of invitePeopleToCampaign calls made
    inviteLast,   \* inputs and outcome of the latest invitePeopleToCampaign call (observation only)
    jobs,         \* the jobs added to scheduleQueue, in the order they were added
    workerAlive,  \* the worker process is running
    campaigns,    \* the Campaign collection: id -> [status, ended, createdBy]
    notifications,\* what sendNotifications has delivered (bag of [userId, type, campaignId])
    handlerLast,  \* the latest handler run (observation only)
    cronLast,     \* the latest addProgressAlertJob call on its own (observation only)
    docs,         \* the Content collection as concurrent calls see it (documents in insertion order)
    calls,        \* the concurrent upsertContent / seedContentSettings calls: id -> position and locals
    started       \* number of concurrent-spec calls started

contentVars == <<content, store, last>>
inviteVars == <<invitations, donations, users, smsSent, inviteCalls, inviteLast>>
workerVars == <<jobs, workerAlive>>
handlerVars == <<campaigns, notifications, handlerLast>>
cronVars == <<cronLast>>
raceVars == <<docs, calls, started>>
vars == <<contentVars, inviteVars, workerVars, handlerVars, cronVars, raceVars>>

(***************************************************************************)
(* JavaScript helpers                                                      *)
(***************************************************************************)
Undefined == "undefined"

\* The text of a sequence of characters.
RECURSIVE Str(_)
Str(chars) == IF chars = <<>> THEN "" ELSE Head(chars) \o Str(Tail(chars))

\* String.prototype.split(sep) on a non-empty string: the pieces between
\* separators, in order (always at least one piece).
RECURSIVE SplitFrom(_, _, _)
SplitFrom(chars, sep, cur) ==
    IF chars = <<>> THEN <<cur>>
    ELSE IF Head(chars) = sep
         THEN <<cur>> \o SplitFrom(Tail(chars), sep, <<>>)
         ELSE SplitFrom(Tail(chars), sep, Append(cur, Head(chars)))

Split(chars, sep) == SplitFrom(chars, sep, <<>>)

(***************************************************************************)
(* content.service.ts : cron derivation                                    *)
(***************************************************************************)
\* progressAlertFrequeincyEnum.weekly
Weekly == "weekly"
Biweekly == "biweekly"

DayNames == {"monday", "tuesday", "wednesday", "thursday", "friday", "saturday", "sunday"}

\* getDayNumber: dayMap[day], rendered as text; a day outside the map gives undefined.
getDayNumber(day) ==
    CASE day = "monday"    -> "1"
      [] day = "tuesday"   -> "2"
      [] day = "wednesday" -> "3"
      [] day = "thursday"  -> "4"
      [] day = "friday"    -> "5"
      [] day = "saturday"  -> "6"
      [] day = "sunday"    -> "0"
      [] OTHER             -> Undefined

\* const [hour, minute] = time ? time.split(':') : ['09', '00'];
\* an absent or empty time is the empty sequence.
TimeParts(time) ==
    IF time # <<>> THEN Split(time, ":") ELSE << <<"0", "9">>, <<"0", "0">> >>

HourOf(time) == Str(TimeParts(time)[1])

MinuteOf(time) ==
    IF Len(TimeParts(time)) >= 2 THEN Str(TimeParts(time)[2]) ELSE Undefined

\* The characters of the text "undefined".
UndefinedChars == <<"u", "n", "d", "e", "f", "i", "n", "e", "d">>

\* The characters the template literal renders for hour and minute.
HourChars(time) == TimeParts(time)[1]

MinuteChars(time) ==
    IF Len(TimeParts(time)) >= 2 THEN TimeParts(time)[2] ELSE UndefinedChars

\* The cron expression addProgressAlertJob derives from progressAlertSchedule.
CronExpression(sched) ==
    IF sched.frequency = Weekly
    THEN MinuteOf(sched.time) \o " " \o HourOf(sched.time) \o " * * " \o getDayNumber(sched.day)
    ELSE MinuteOf(sched.time) \o " " \o HourOf(sched.time) \o " 1,15 * *"

(***************************************************************************)
(* The fixed identities and the registrations of the three recurring jobs  *)
(***************************************************************************)
ProgressJobId == "progress-alert-job"
LowProgressJobId == "low-progress-warning-job"
ExpiredJobId == "campaign-expired-alert-job"

\* const jobIds = [...] in removeExistingNotificationJobs
jobIds == {ProgressJobId, LowProgressJobId, ExpiredJobId}

\* A repeatable registration. The queue derives its key from the job name, the
\* jobId and the repeat pattern, so two registrations are the same entry exactly
\* when all three agree.
Registration(name, jobId, pattern) == [name |-> name, jobId |-> jobId, pattern |-> pattern]

\* job.key.includes(id): of the parts of a key only the jobId holds an identity
\* (no job name and no cron pattern contains one).
KeyIncludes(job, id) == job.jobId = id

\* The registrations made under the jobId id.
RegistrationsOf(st, id) == { job \in st : job.jobId = id }

\* scheduleQueue.add(name, data, {repeat: {pattern}, jobId}) : adding an entry whose
\* key is already registered leaves one entry.
QueueAdd(st, job) == st \cup {job}

(***************************************************************************)
(* Inputs of the content flow                                              *)
(***************************************************************************)
Schedule(frequency, day, time) == [frequency |-> frequency, day |-> day, time |-> time]

\* The progressAlertSchedule values a payload may carry; <<>> is a missing schedule.
Schedules ==
    { <<Schedule(Weekly, "monday", <<"1", "0", ":", "0", "0">>)>>,
      <<Schedule(Biweekly, Undefined, <<"0", "9", ":", "3", "0">>)>>,
      <<>> }

Strategy(pa, lpw, cea, sched) ==
    [progressAlert |-> pa, lowProgressWarning |-> lpw, campaignExpiredAlert |-> cea,
     progressAlertSchedule |-> sched]

Strategies == { Strategy(pa, lpw, cea, sched) : pa \in BOOLEAN, lpw \in BOOLEAN,
                                                cea \in BOOLEAN, sched \in Schedules }

\* payload.notificationStrategy of an upsertContent call: absent or one strategy.
Payloads == {<<>>} \cup { <<ns>> : ns \in Strategies }

\* The values the fields of a progressAlertSchedule may hold when
\* addProgressAlertJob reads them: the two frequencies of the enum and another
\* one; the seven days, no day and a day outside the map; times that are
\* "HH:MM", no time, and texts that are not "HH:MM".
Frequencies == {Weekly, Biweekly, "monthly"}

Days == DayNames \cup {Undefined, "funday"}

Times ==
    { <<"1", "0", ":", "0", "0">>, <<"0", "9", ":", "3", "0">>, <<"2", "3", ":", "0", "5">>,
      <<>>,
      <<"1", "0", "0", "0">>, <<"a", "b", ":", "c", "d">>, <<"1", "0", ":">> }

CronSchedules == { Schedule(f, d, t) : f \in Frequencies, d \in Days, t \in Times }

\* CronExpression tabulated over the schedules in use (evaluated once).
CronOf == [sched \in { s[1] : s \in Schedules \ {<<>>} } \cup CronSchedules |-> CronExpression(sched)]

\* Which scheduleQueue.add call raises during one setupNotificationJobs run: none,
\* or one of the adds the payload's toggles lead to.
AddFailures(payload) ==
    {"none"} \cup (IF payload = <<>> THEN {}
                   ELSE (IF payload[1].progressAlert THEN {"progress"} ELSE {})
                        \cup (IF payload[1].lowProgressWarning THEN {"low"} ELSE {})
                        \cup (IF payload[1].campaignExpiredAlert THEN {"expired"} ELSE {}))

(***************************************************************************)
(* content.service.ts : registration                                       *)
(***************************************************************************)
Step(st, ok) == [store |-> st, ok |-> ok]

\* addProgressAlertJob: destructuring a missing progressAlertSchedule raises;
\* otherwise the job is added under the derived cron pattern.
addProgressAlertJob(st, ns, addRaises) ==
    IF ns.progressAlertSchedule = <<>> \/ addRaises
    THEN Step(st, FALSE)
    ELSE Step(QueueAdd(st, Registration("sendProgressAlert", ProgressJobId,
                                        CronOf[ns.progressAlertSchedule[1]])), TRUE)

\* What one addProgressAlertJob call did: the schedule it was given, the hour and
\* minute it destructured, whether it returned, and the patterns it registered.
CronRun(sched, hour, minute, ok, patterns) ==
    [sched |-> sched, hour |-> hour, minute |-> minute, ok |-> ok, patterns |-> patterns]

\* addProgressAlertJob called with a strategy whose progressAlertSchedule is
\* sched, on a queue without registrations and with scheduleQueue.add succeeding.
scheduleProgressAlert(sched) ==
    /\ LET r == addProgressAlertJob({}, Strategy(TRUE, FALSE, FALSE, <<sched>>), FALSE)
       IN cronLast' = CronRun(<<sched>>, HourChars(sched.time), MinuteChars(sched.time), r.ok,
                              { job.pattern : job \in RegistrationsOf(r.store, ProgressJobId) })
    /\ UNCHANGED <<contentVars, inviteVars, workerVars, handlerVars, raceVars>>

CronInit == cronLast = CronRun(<<>>, <<>>, <<>>, TRUE, {})

CronNext == \E sched \in CronSchedules : scheduleProgressAlert(sched)

addLowProgressWarningJob(st, addRaises) ==
    IF addRaises THEN Step(st, FALSE)
    ELSE Step(QueueAdd(st, Registration("checkLowProgress", LowProgressJobId, "0 10 * * *")), TRUE)

addCampaignExpiredAlertJob(st, addRaises) ==
    IF addRaises THEN Step(st, FALSE)
    ELSE Step(QueueAdd(st, Registration("checkExpiredCampaigns", ExpiredJobId, "0 8 * * *")), TRUE)

\* A setup whose catch logs the error of an add and does not re-throw it.
setupNotificationJobs_swallows(st, ns, addFail) ==
    LET r1 == IF ns.progressAlert
              THEN addProgressAlertJob(st, ns, addFail = "progress")
              ELSE Step(st, TRUE)
        r2 == IF ~r1.ok THEN r1
              ELSE IF ns.lowProgressWarning
                   THEN addLowProgressWarningJob(r1.store, addFail = "low")
                   ELSE r1
        r3 == IF ~r2.ok THEN r2
              ELSE IF ns.campaignExpiredAlert
                   THEN addCampaignExpiredAlertJob(r2.store, addFail = "expired")
                   ELSE r2
    IN Step(r3.store, TRUE)

\* setupNotificationJobs: the three adds in order, each behind its toggle; the
\* first one that raises ends the run and the error is re-thrown (ok = FALSE).
setupNotificationJobs(st, ns, addFail) ==
    LET r1 == IF ns.progressAlert
              THEN addProgressAlertJob(st, ns, addFail = "progress")
              ELSE Step(st, TRUE)
        r2 == IF ~r1.ok THEN r1
              ELSE IF ns.lowProgressWarning
                   THEN addLowProgressWarningJob(r1.store, addFail = "low")
                   ELSE r1
        r3 == IF ~r2.ok THEN r2
              ELSE IF ns.campaignExpiredAlert
                   THEN addCampaignExpiredAlertJob(r2.store, addFail = "expired")
                   ELSE r2
    IN r3

(***************************************************************************)
(* content.service.ts : removal                                            *)
(***************************************************************************)
\* A removal that knows only the progress-alert identity.
MatchingJobs_onlyProgress(st) == { job \in st : KeyIncludes(job, ProgressJobId) }

\* The listed jobs whose key contains one of the fixed identities.
MatchingJobs(st) == { job \in st : \E id \in jobIds : KeyIncludes(job, id) }

\* The result of one removal run: the store it leaves, whether it hit an error,
\* and the registration whose removeRepeatableByKey raised ({} when none did).
Removal(st, failed, failedOn) == [store |-> st, failed |-> failed, failedOn |-> failedOn]

\* removeExistingNotificationJobs: every outcome of one run. Without an error all
\* matching registrations are removed. getRepeatableJobs may raise (nothing is
\* removed) and removeRepeatableByKey may raise on some matching job, after any
\* of the other matching jobs were removed (the list order is the queue's); the
\* catch, which is around the whole loop, ends the run and swallows the error.
removeExistingNotificationJobs(st) ==
    {Removal(st \ MatchingJobs(st), FALSE, {})}
    \cup {Removal(st, TRUE, {})}
    \cup UNION { { Removal(st \ R, TRUE, {job}) : job \in MatchingJobs(st) \ R } :
                    R \in SUBSET MatchingJobs(st) }

(***************************************************************************)
(* content.service.ts : upsertContent, seedSettings.ts : seedContentSettings*)
(***************************************************************************)
Doc(exists, ns) == [exists |-> exists, ns |-> ns]

\* What a call did: its path, the strategy of its payload, whether it returned
\* (ok) or threw, whether its removal run hit an error, which scheduleQueue.add
\* raised (addFail), whether it changed the store, and whether every call so far
\* returned.
Outcome(op, ns, ok, rmFailed, addFail, changed, allReturned) ==
    [op |-> op, ns |-> ns, ok |-> ok, rmFailed |-> rmFailed, addFail |-> addFail,
     changed |-> changed, allReturned |-> allReturned]

\* Create path: no Content document exists. The document is created from the
\* payload, then its jobs are set up when it carries a strategy.
upsertCreate(payload, addFail) ==
    /\ ~content.exists
    /\ LET res == IF payload # <<>>
                  THEN setupNotificationJobs(store, payload[1], addFail)
                  ELSE Step(store, TRUE)
       IN /\ content' = Doc(TRUE, payload)
          /\ store' = res.store
          /\ last' = Outcome("create", payload, res.ok, FALSE, addFail, res.store # store,
                                   last.allReturned /\ res.ok)
    /\ UNCHANGED <<inviteVars, workerVars, handlerVars, cronVars, raceVars>>

\* An update path on which an error of the removal run ends the call: the
\* registration step is not reached and the call throws.
upsertUpdate_removalBlocks(payload, addFail) ==
    /\ content.exists
    /\ LET updated == IF payload # <<>> THEN Doc(TRUE, payload) ELSE content
       IN /\ content' = updated
          /\ IF payload # <<>>
             THEN \E rm \in removeExistingNotificationJobs(store) :
                     LET res == IF rm.failed THEN Step(rm.store, FALSE)
                                ELSE setupNotificationJobs(rm.store, updated.ns[1], addFail)
                     IN /\ store' = res.store
                        /\ last' = Outcome("update", payload, res.ok, rm.failed, addFail,
                                           res.store # store, last.allReturned /\ res.ok)
             ELSE /\ store' = store
                  /\ last' = Outcome("update", payload, TRUE, FALSE, addFail, FALSE, last.allReturned)
    /\ UNCHANGED <<inviteVars, workerVars, handlerVars, cronVars, raceVars>>

\* An update path that removes the old registrations whatever the payload
\* carries, and sets jobs up only for a payload with a strategy.
upsertUpdate_alwaysRemoves(payload, addFail) ==
    /\ content.exists
    /\ LET updated == IF payload # <<>> THEN Doc(TRUE, payload) ELSE content
       IN /\ content' = updated
          /\ \E rm \in removeExistingNotificationJobs(store) :
                LET res == IF payload # <<>>
                           THEN setupNotificationJobs(rm.store, updated.ns[1], addFail)
                           ELSE Step(rm.store, TRUE)
                IN /\ store' = res.store
                   /\ last' = Outcome("update", payload, res.ok, rm.failed, addFail,
                                      res.store # store, last.allReturned /\ res.ok)
    /\ UNCHANGED <<inviteVars, workerVars, handlerVars, cronVars, raceVars>>

\* Update path: the document is updated first; when the payload carries a
\* strategy the old registrations are removed and the jobs of the updated
\* document's strategy are set up.
upsertUpdate(payload, addFail) ==
    /\ content.exists
    /\ LET updated == IF payload # <<>> THEN Doc(TRUE, payload) ELSE content
       IN /\ content' = updated
          /\ IF payload # <<>>
             THEN \E rm \in removeExistingNotificationJobs(store) :
                     LET res == setupNotificationJobs(rm.store, updated.ns[1], addFail)
                     IN /\ store' = res.store
                        /\ last' = Outcome("update", payload, res.ok, rm.failed, addFail,
                                           res.store # store, last.allReturned /\ res.ok)
             ELSE /\ store' = store
                  /\ last' = Outcome("update", payload, TRUE, FALSE, addFail, FALSE, last.allReturned)
    /\ UNCHANGED <<inviteVars, workerVars, handlerVars, cronVars, raceVars>>

upsertContent(payload, addFail) ==
    \/ upsertCreate(payload, addFail)
    \/ upsertUpdate(payload, addFail)

\* The strategy of the seeded document.
SeedStrategy == Strategy(TRUE, TRUE, TRUE, <<Schedule(Weekly, "monday", <<"1", "0", ":", "0", "0">>)>>)

\* seedContentSettings: returns the existing document, or saves the default one;
\* it registers no job.
seedContentSettings ==
    /\ content' = IF content.exists THEN content ELSE Doc(TRUE, <<SeedStrategy>>)
    /\ store' = store
    /\ last' = Outcome("seed", <<>>, TRUE, FALSE, "none", FALSE, last.allReturned)
    /\ UNCHANGED <<inviteVars, workerVars, handlerVars, cronVars, raceVars>>

ContentInit ==
    /\ content = Doc(FALSE, <<>>)
    /\ store = {}
    /\ last = Outcome("none", <<>>, TRUE, FALSE, "none", FALSE, TRUE)

ContentNext ==
    \/ \E payload \in Payloads : \E addFail \in AddFailures(payload) : upsertContent(payload, addFail)
    \/ seedContentSettings

(***************************************************************************)
(* content.service.ts : a removal run on its own                           *)
(***************************************************************************)
\* What one removal run did: the store before and after, whether it hit an
\* error and on which registration.
RemovalOutcome(before, rm) ==
    [op |-> "remove", before |-> before, after |-> rm.store, failed |-> rm.failed,
     failedOn |-> rm.failedOn]

\* One run of removeExistingNotificationJobs on the store as it is.
removalRun ==
    /\ \E rm \in removeExistingNotificationJobs(store) :
          /\ store' = rm.store
          /\ last' = RemovalOutcome(store, rm)
    /\ UNCHANGED content
    /\ UNCHANGED <<inviteVars, workerVars, handlerVars, cronVars, raceVars>>

\* The registrations a store can hold when a removal run starts: those of the
\* two always-daily jobs and progress-alert registrations under the patterns of
\* earlier schedules.
StoredRegistrations ==
    { Registration("sendProgressAlert", ProgressJobId, pattern) :
        pattern \in {"00 10 * * 1", "30 09 1,15 * *"} }
    \cup { Registration("checkLowProgress", LowProgressJobId, "0 10 * * *"),
           Registration("checkExpiredCampaigns", ExpiredJobId, "0 8 * * *") }

RemovalInit ==
    /\ content = Doc(TRUE, <<>>)
    /\ store \in SUBSET StoredRegistrations
    /\ last = RemovalOutcome(store, Removal(store, FALSE, {}))

RemovalNext == removalRun

(***************************************************************************)
(* campaign.service.ts : invitePeopleToCampaign                            *)
(***************************************************************************)
MaxInviteCalls == 2
MaxInvitees == 3

UserIds == {"u1", "u2", "u3", "ghost"}

User(exists, contact, raised, donated, invited) ==
    [exists |-> exists, contact |-> contact, totalRaised |-> raised,
     totalDonated |-> donated, totalInvited |-> invited]

\* u1 and u2 have a contact phone, u3 has none, ghost is no user.
InitialUsers ==
    [u \in UserIds |-> User(u # "ghost", u \in {"u1", "u2"}, 0, 0, 0)]

CampaignIds == {"c1", "missing"}

\* The goalAmount of campaign "c1".
DonationGoal == 100

\* Campaign.findById(campaignId)
CampaignExists(campaignId) == campaignId = "c1"

\* myInvitees: one invitee or MaxInvitees invitees, each with a phone except
\* possibly the last, whose invitationForPhone may be the empty string.
RECURSIVE PhoneList(_)
PhoneList(n) == IF n = 0 THEN <<>> ELSE Append(PhoneList(n - 1), "555")

InviteeLists ==
    { PhoneList(n) : n \in {1, MaxInvitees} }
    \cup { Append(PhoneList(n - 1), "") : n \in {1, MaxInvitees} }

\* payload.donationAmount: absent (<<>>) or a number.
DonationAmounts == {<<>>, <<0>>, <<50>>}

\* A donation test that also accepts an amount of zero.
IsPositive_orZero(amount) == amount # <<>> /\ amount[1] >= 0

\* payload.donationAmount && payload.donationAmount > 0
IsPositive(amount) == amount # <<>> /\ amount[1] > 0

\* payload.donationAmount || 0
AmountOrZero(amount) == IF amount # <<>> THEN amount[1] ELSE 0

\* (user.id, payload.invitationIrecievedFrom, campaignId) of a call.
CallerInputs ==
    { <<"u1", "u2", "c1">>, <<"u2", "u1", "c1">>, <<"u1", "u1", "c1">>,
      <<"u1", "u2", "missing">>, <<"u3", "u2", "c1">>, <<"ghost", "u2", "c1">>,
      <<"u1", "ghost", "c1">> }

\* Validation without the self-invitation check.
Validate_noSelfCheck(usr, inviter, referrer, campaignId) ==
    IF ~CampaignExists(campaignId) THEN "Campaign not found."
    ELSE IF ~usr[inviter].exists \/ ~usr[inviter].contact THEN "User not found."
    ELSE IF ~usr[referrer].exists THEN "Invitation User not found."
    ELSE ""

\* The checks before any work is done, in the code's order; "" when all pass.
Validate(usr, inviter, referrer, campaignId) ==
    IF referrer = inviter THEN "You can not invite yourself."
    ELSE IF ~CampaignExists(campaignId) THEN "Campaign not found."
    ELSE IF ~usr[inviter].exists \/ ~usr[inviter].contact THEN "User not found."
    ELSE IF ~usr[referrer].exists THEN "Invitation User not found."
    ELSE ""

\* One InvitationHistory record of batchInvitationDto.
Invitation(inviter, phone, isDonated) ==
    [invitationFromUser |-> inviter, invitationForPhone |-> phone, isDonated |-> isDonated]

RECURSIVE BatchInvitationDto(_, _, _)
BatchInvitationDto(invitees, inviter, amount) ==
    IF invitees = <<>> THEN EmptyBag
    ELSE SetToBag({Invitation(inviter, Head(invitees), IsPositive(amount))})
         (+) BatchInvitationDto(Tail(invitees), inviter, amount)

\* The invitees the loop calls sendSMS for: those with a non-empty phone.
SmsCount(invitees) == Cardinality({ i \in 1..Len(invitees) : invitees[i] # "" })

\* shared/sendSMS may raise. smsFailAt = 0: no sendSMS call of the loop raises;
\* smsFailAt = k: the k-th call raises, after k - 1 messages went out.
SmsFailures(invitees) == 0..SmsCount(invitees)

Db(inv, don, usr) == [invitations |-> inv, donations |-> don, users |-> usr]

\* InvitationHistory.insertMany(batchInvitationDto, {session})
insertMany(db, batch) == [db EXCEPT !.invitations = @ (+) batch]

\* Transaction.create([donationDto], {session})
createDonation(db, inviter, amount) ==
    [db EXCEPT !.donations = @ (+) SetToBag({[donorId |-> inviter, amountPaid |-> AmountOrZero(amount)]})]

\* User.updateOne({_id: isInvitationUser._id}, {$inc: {totalRaised}}, {session})
incTotalRaised(db, referrer, amount) ==
    [db EXCEPT !.users[referrer].totalRaised = @ + AmountOrZero(amount)]

\* An inviter update that counts one invitation per call.
incDonatedAndInvited_countsOne(db, inviter, amount, n) ==
    [db EXCEPT !.users[inviter].totalDonated = @ + AmountOrZero(amount),
               !.users[inviter].totalInvited = @ + 1]

\* User.updateOne({_id: isExitUser._id}, {$inc: {totalDonated, totalInvited}}, {session})
incDonatedAndInvited(db, inviter, amount, n) ==
    [db EXCEPT !.users[inviter].totalDonated = @ + AmountOrZero(amount),
               !.users[inviter].totalInvited = @ + n]

\* session.commitTransaction(): the session's writes become the collections.
commitTransaction(committed, staged) == staged

\* An abort that leaves the session's writes in place (writes made without the session).
abortTransaction_keepsWrites(committed, staged) == staged

\* session.abortTransaction(): the session's writes are discarded.
abortTransaction(committed, staged) == committed

\* The steps of the try block that can raise, for a given donation amount.
TxSteps(amount) ==
    IF IsPositive(amount)
    THEN {"insertMany", "createDonation", "incTotalRaised", "incDonatedAndInvited", "commit"}
    ELSE {"insertMany", "commit"}

\* The try/catch block: the writes of the session up to the step that raises
\* (failStep, "none" when no step raises), then commit or abort.
RunTransaction(db, inviter, referrer, invitees, amount, failStep) ==
    LET d1 == insertMany(db, BatchInvitationDto(invitees, inviter, amount))
        d2 == IF IsPositive(amount) THEN createDonation(d1, inviter, amount) ELSE d1
        d3 == IF IsPositive(amount) THEN incTotalRaised(d2, referrer, amount) ELSE d2
        d4 == IF IsPositive(amount)
              THEN incDonatedAndInvited(d3, inviter, amount, Len(invitees)) ELSE d3
        staged == CASE failStep = "insertMany"           -> db
                    [] failStep = "createDonation"       -> d1
                    [] failStep = "incTotalRaised"       -> d2
                    [] failStep = "incDonatedAndInvited" -> d3
                    [] OTHER                             -> d4
    IN IF failStep = "none"
       THEN [db |-> commitTransaction(db, staged), ok |-> TRUE]
       ELSE [db |-> abortTransaction(db, staged), ok |-> FALSE]

InviteOutcome(result, error, inviter, referrer, campaignId, n, amount, smsFailed, failStep) ==
    [result |-> result, error |-> error, inviter |-> inviter, referrer |-> referrer,
     campaignId |-> campaignId, n |-> n, amount |-> amount, smsFailed |-> smsFailed,
     failStep |-> failStep]

\* invitePeopleToCampaign: validation, then the loop that builds the batch and
\* awaits sendSMS for each invitee with a phone, then the transaction.
invitePeopleToCampaign(inviter, referrer, campaignId, invitees, amount, smsFailAt, failStep) ==
    /\ inviteCalls < MaxInviteCalls
    /\ inviteCalls' = inviteCalls + 1
    /\ LET err == Validate(users, inviter, referrer, campaignId)
           n == Len(invitees)
       IN IF err # ""
          THEN /\ UNCHANGED <<invitations, donations, users, smsSent>>
               /\ inviteLast' = InviteOutcome("validation", err, inviter, referrer, campaignId,
                                              n, amount, FALSE, "none")
          ELSE IF smsFailAt > 0
          THEN /\ smsSent' = smsSent + (smsFailAt - 1)
               /\ UNCHANGED <<invitations, donations, users>>
               /\ inviteLast' = InviteOutcome("sms", "sendSMS error", inviter, referrer,
                                              campaignId, n, amount, TRUE, "none")
          ELSE LET tx == RunTransaction(Db(invitations, donations, users), inviter, referrer,
                                        invitees, amount, failStep)
               IN /\ smsSent' = smsSent + SmsCount(invitees)
                  /\ invitations' = tx.db.invitations
                  /\ donations' = tx.db.donations
                  /\ users' = tx.db.users
                  /\ inviteLast' =
                        IF tx.ok
                        THEN InviteOutcome("ok", "", inviter, referrer, campaignId, n, amount,
                                           FALSE, failStep)
                        ELSE InviteOutcome("tx", "Failed to process invitation and donation",
                                           inviter, referrer, campaignId, n, amount, FALSE,
                                           failStep)
    /\ UNCHANGED <<contentVars, workerVars, handlerVars, cronVars, raceVars>>

InviteInit ==
    /\ invitations = EmptyBag
    /\ donations = EmptyBag
    /\ users = InitialUsers
    /\ smsSent = 0
    /\ inviteCalls = 0
    /\ inviteLast = InviteOutcome("none", "", "u1", "u2", "c1", 0, <<>>, FALSE, "none")

\* The calls made: a call whose inputs fail validation is made with the longest
\* list and a donation (the code reads neither before it returns); the failure
\* inputs are those that can take effect.
InviteNext ==
    \E who \in CallerInputs :
        LET valid == Validate(users, who[1], who[2], who[3]) = ""
        IN \E invitees \in (IF valid THEN InviteeLists ELSE {PhoneList(MaxInvitees)}),
              amount \in (IF valid THEN DonationAmounts ELSE {<<50>>}) :
             \E smsFailAt \in (IF valid THEN SmsFailures(invitees) ELSE {0}) :
               \E failStep \in (IF valid /\ smsFailAt = 0 THEN TxSteps(amount) \cup {"none"}
                                ELSE {"none"}) :
                  invitePeopleToCampaign(who[1], who[2], who[3], invitees, amount,
                                         smsFailAt, failStep)

(***************************************************************************)
(* notificationWorker.ts : startNotificationWorker                         *)
(***************************************************************************)
MaxJobs == 2
\* The attempts the queue gives a job (scheduleQueue's job options).
MaxAttempts == 2

\* The names jobs are added under: the four the worker knows and a foreign one.
JobNames == {"sendProgressAlert", "checkLowProgress", "checkExpiredCampaigns",
             "sendMilestoneAlert", "somethingElse"}

\* A switch whose checkLowProgress case has no break.
Dispatch_fallsThrough(name) ==
    CASE name = "sendProgressAlert"     -> {"handleProgressAlert"}
      [] name = "checkLowProgress"      -> {"handleLowProgressWarning", "handleExpiredCampaigns"}
      [] name = "checkExpiredCampaigns" -> {"handleExpiredCampaigns"}
      [] name = "sendMilestoneAlert"    -> {"handleMilestoneAlert"}
      [] OTHER                          -> {}

\* switch (job.name): the handlers the processor calls for a job name.
Dispatch(name) ==
    CASE name = "sendProgressAlert"     -> {"handleProgressAlert"}
      [] name = "checkLowProgress"      -> {"handleLowProgressWarning"}
      [] name = "checkExpiredCampaigns" -> {"handleExpiredCampaigns"}
      [] name = "sendMilestoneAlert"    -> {"handleMilestoneAlert"}
      [] OTHER                          -> {}

\* A processor whose catch logs and does not re-throw.
Processor_swallows(name, handlerRaises) ==
    [handlers |-> Dispatch(name), raised |-> Dispatch(name) # {} /\ handlerRaises,
     rejected |-> FALSE]

\* The processor function: dispatch inside try; the catch logs and re-throws, so
\* the processor rejects exactly when a handler it called raised (raised).
Processor(name, handlerRaises) ==
    [handlers |-> Dispatch(name), raised |-> Dispatch(name) # {} /\ handlerRaises,
     rejected |-> Dispatch(name) # {} /\ handlerRaises]

\* A 'failed' listener that ends the process.
onFailed_exits(alive) == FALSE

\* worker.on('completed', ...) and worker.on('failed', ...): both only log.
onCompleted(alive) == alive

onFailed(alive) == alive

\* The names content.service.ts registers with a repeat pattern; a job added
\* under one of them is a firing of its registration.
RecurringNames == {"sendProgressAlert", "checkLowProgress", "checkExpiredCampaigns"}

\* The milestone values triggerMilestoneAlert is called with.
Milestones == {50, 100}

\* A queue entry: repeat says whether it was added with a repeat option, data is
\* the (campaignId, milestone) payload of a milestone job (<<>> otherwise), and
\* firing marks an entry the queue created as a further firing of a repeat entry.
Job(name, repeat, data, firing, afterFailure) ==
    [name |-> name, state |-> "wait", attemptsMade |-> 0, attempts |-> <<>>,
     signals |-> <<>>, afterFailure |-> afterFailure, repeat |-> repeat, data |-> data,
     firing |-> firing]

\* Some job added earlier has failed for good.
SomeJobFailed == \E i \in 1..Len(jobs) : jobs[i].state = "failed"

\* The queue's bookkeeping after one run of the processor: a resolved run
\* completes the job; a rejected run counts an attempt and the job waits for a
\* retry until MaxAttempts are used up, then it is failed. The worker emits
\* 'completed' or 'failed' for the run; final marks the signal that ends the job.
Settle(job, run) ==
    LET made == job.attemptsMade + 1
        state == IF ~run.rejected THEN "completed"
                 ELSE IF made < MaxAttempts THEN "wait" ELSE "failed"
    IN [job EXCEPT
          !.state = state,
          !.attemptsMade = made,
          !.attempts = Append(@, [handlers |-> run.handlers, raised |-> run.raised]),
          !.signals = Append(@, [kind |-> IF run.rejected THEN "failed" ELSE "completed",
                                 final |-> state # "wait"])]

\* A producer adds a job (a firing of a recurring registration, a one-shot job,
\* or a job of another producer) to the queue.
queueAdd(name) ==
    /\ Len(jobs) < MaxJobs
    /\ jobs' = Append(jobs, Job(name, name \in RecurringNames, <<>>, FALSE, SomeJobFailed))
    /\ UNCHANGED <<workerAlive, contentVars, inviteVars, handlerVars, cronVars, raceVars>>

\* A milestone trigger that adds its job with a repeat option.
triggerMilestoneAlert_repeating(campaignId, milestone) ==
    /\ Len(jobs) < MaxJobs
    /\ jobs' = Append(jobs, Job("sendMilestoneAlert", TRUE, <<campaignId, milestone>>, FALSE,
                                SomeJobFailed))
    /\ UNCHANGED <<workerAlive, contentVars, inviteVars, handlerVars, cronVars, raceVars>>

\* triggerMilestoneAlert: scheduleQueue.add('sendMilestoneAlert', {campaignId,
\* milestone}) with no options, so the job is a one-shot job.
triggerMilestoneAlert(campaignId, milestone) ==
    /\ Len(jobs) < MaxJobs
    /\ jobs' = Append(jobs, Job("sendMilestoneAlert", FALSE, <<campaignId, milestone>>, FALSE,
                                SomeJobFailed))
    /\ UNCHANGED <<workerAlive, contentVars, inviteVars, handlerVars, cronVars, raceVars>>

\* The queue delivers an entry added with a repeat option again at every firing
\* of its pattern: each firing is a further entry with the same name and data.
nextFiring(i) ==
    /\ Len(jobs) < MaxJobs
    /\ jobs[i].repeat
    /\ jobs' = Append(jobs, Job(jobs[i].name, TRUE, jobs[i].data, TRUE, SomeJobFailed))
    /\ UNCHANGED <<workerAlive, contentVars, inviteVars, handlerVars, cronVars, raceVars>>

\* A worker that takes only the firings of recurring registrations.
processJob_skipsOneShot(i, handlerRaises) ==
    /\ workerAlive
    /\ jobs[i].state = "wait"
    /\ jobs[i].repeat
    /\ LET run == Processor(jobs[i].name, handlerRaises)
       IN /\ jobs' = [jobs EXCEPT ![i] = Settle(@, run)]
          /\ workerAlive' = IF run.rejected THEN onFailed(workerAlive)
                            ELSE onCompleted(workerAlive)
    /\ UNCHANGED <<contentVars, inviteVars, handlerVars, cronVars, raceVars>>

\* The worker takes waiting job i and runs the processor on it; handlerRaises
\* says whether the handler called (if any) raises in this run.
processJob(i, handlerRaises) ==
    /\ workerAlive
    /\ jobs[i].state = "wait"
    /\ LET run == Processor(jobs[i].name, handlerRaises)
       IN /\ jobs' = [jobs EXCEPT ![i] = Settle(@, run)]
          /\ workerAlive' = IF run.rejected THEN onFailed(workerAlive)
                            ELSE onCompleted(workerAlive)
    /\ UNCHANGED <<contentVars, inviteVars, handlerVars, cronVars, raceVars>>

WorkerInit ==
    /\ jobs = <<>>
    /\ workerAlive = TRUE

WorkerNext ==
    \/ \E name \in JobNames : queueAdd(name)
    \/ \E milestone \in Milestones : triggerMilestoneAlert("c1", milestone)
    \/ \E i \in 1..Len(jobs) : nextFiring(i)
    \/ \E i \in 1..Len(jobs), handlerRaises \in BOOLEAN : processJob(i, handlerRaises)

\* The worker with handlers that do not fail.
DrainNext ==
    \/ \E name \in JobNames : queueAdd(name)
    \/ \E milestone \in Milestones : triggerMilestoneAlert("c1", milestone)
    \/ \E i \in 1..Len(jobs) : nextFiring(i)
    \/ \E i \in 1..Len(jobs) : processJob(i, FALSE)

\* The worker runs until the process ends: a job that waits is taken.
DrainFairness == \A i \in 1..MaxJobs : WF_vars(i <= Len(jobs) /\ processJob(i, FALSE))

(***************************************************************************)
(* notificationWorker.ts : handleExpiredCampaigns                          *)
(***************************************************************************)
\* The handler runs made in one behaviour.
MaxRuns == 3

\* The campaigns of the Campaign collection, in the order find() returns them.
CampaignOrder == <<"k1", "k2", "k3">>

CampaignKeys == { CampaignOrder[i] : i \in 1..Len(CampaignOrder) }

\* A campaign: its status, whether its endDate is earlier than now (ended),
\* whether its endDate is no later than seven days from now (endsWithinWeek; a
\* past endDate is), its amounts, its owner (createdBy), and the number of
\* status writes it received (observation).
Campaign(status, ended, endsWithinWeek, currentAmount, goalAmount, createdBy, statusWrites) ==
    [status |-> status, ended |-> ended, endsWithinWeek |-> endsWithinWeek,
     currentAmount |-> currentAmount, goalAmount |-> goalAmount, createdBy |-> createdBy,
     statusWrites |-> statusWrites]

OwnerOf(c) == IF c = "k1" THEN "o1" ELSE "o2"

\* The members of S in the order of CampaignOrder.
RECURSIVE InOrder(_, _)
InOrder(order, S) ==
    IF order = <<>> THEN <<>>
    ELSE IF Head(order) \in S THEN <<Head(order)>> \o InOrder(Tail(order), S)
         ELSE InOrder(Tail(order), S)

\* A query for the campaigns whose endDate has passed, whatever their status.
ExpiredQuery_anyStatus(cs) == { c \in DOMAIN cs : cs[c].ended }

\* Campaign.find({status: 'active', endDate: {$lt: new Date()}})
ExpiredQuery(cs) == { c \in DOMAIN cs : cs[c].status = "active" /\ cs[c].ended }

\* The awaited calls of the loop over the selected campaigns, in order: for each
\* campaign the status update, then the notification.
RECURSIVE ExpiredSteps(_)
ExpiredSteps(selected) ==
    IF selected = <<>> THEN <<>>
    ELSE << <<Head(selected), "update">>, <<Head(selected), "notify">> >>
         \o ExpiredSteps(Tail(selected))

\* sendNotifications({userId, type, title, message, data: {campaignId, ...}}):
\* message is the text as a sequence of pieces, data what data carries besides
\* the campaign id (<<>>: nothing).
Notification(userId, type, campaignId, message, data) ==
    [userId |-> userId, type |-> type, campaignId |-> campaignId, message |-> message,
     data |-> data]

\* message: `"${campaign.title}" has ended` of the expiry notification.
ExpiredNotification(cs, c) ==
    Notification(cs[c].createdBy, "CAMPAIGN_EXPIRED", c, <<c, " has ended">>, <<>>)

\* The collections after the first n calls of steps.
RECURSIVE ApplyExpiredSteps(_, _, _, _)
ApplyExpiredSteps(steps, n, cs, sent) ==
    IF n = 0 \/ steps = <<>> THEN [campaigns |-> cs, notifications |-> sent]
    ELSE LET c == Head(steps)[1]
         IN IF Head(steps)[2] = "update"
            THEN \* Campaign.findByIdAndUpdate(campaign._id, {status: 'expired'})
                 ApplyExpiredSteps(Tail(steps), n - 1,
                     [cs EXCEPT ![c].status = "expired", ![c].statusWrites = @ + 1], sent)
            ELSE ApplyExpiredSteps(Tail(steps), n - 1, cs,
                     sent (+) SetToBag({ExpiredNotification(cs, c)}))

\* One run of a handler: the job data it was given, the campaigns its query
\* selected, the awaited calls of its loop that took effect (done), the
\* notifications it delivered (sent), the count its last console.log reports
\* (<<>> when the run logged none), whether it returned (ok), and what ended it
\* otherwise: "rejected" for an awaited call that rejected, "TypeError" for a
\* property read or method call on undefined.
HandlerRun(handler, runs, data, selected, done, sent, reported, ok, error) ==
    [handler |-> handler, runs |-> runs, data |-> data, selected |-> selected, done |-> done,
     sent |-> sent, reported |-> reported, ok |-> ok, error |-> error]

NoRun == HandlerRun("none", 0, <<>>, {}, 0, EmptyBag, <<>>, TRUE, "none")

\* handleExpiredCampaigns: one run of the handler. failAt = 0: no awaited call of
\* the loop raises; failAt = k: the k-th call raises after the k - 1 before it
\* took effect, and the run ends there.
handleExpiredCampaigns(failAt) ==
    /\ handlerLast.runs < MaxRuns
    /\ LET selected == ExpiredQuery(campaigns)
           steps == ExpiredSteps(InOrder(CampaignOrder, selected))
           n == IF failAt = 0 THEN Len(steps) ELSE failAt - 1
           after == ApplyExpiredSteps(steps, n, campaigns, notifications)
       IN /\ failAt <= Len(steps)
          /\ campaigns' = after.campaigns
          /\ notifications' = after.notifications
          /\ handlerLast' = HandlerRun("handleExpiredCampaigns", handlerLast.runs + 1, <<>>,
                                       selected, n, after.notifications (-) notifications,
                                       IF failAt = 0 THEN <<Cardinality(selected)>> ELSE <<>>,
                                       failAt = 0, IF failAt = 0 THEN "none" ELSE "rejected")
    /\ UNCHANGED <<contentVars, inviteVars, workerVars, cronVars, raceVars>>

\* Time passes: the endDate of campaign c is now in the past.
endDatePasses(c) ==
    /\ ~campaigns[c].ended
    /\ campaigns' = [campaigns EXCEPT ![c].ended = TRUE, ![c].endsWithinWeek = TRUE]
    /\ UNCHANGED <<notifications, handlerLast>>
    /\ UNCHANGED <<contentVars, inviteVars, workerVars, cronVars, raceVars>>

HandlerInit ==
    /\ campaigns = [c \in CampaignKeys |-> Campaign("active", FALSE, FALSE, 250, 1000, OwnerOf(c), 0)]
    /\ notifications = EmptyBag
    /\ handlerLast = NoRun

HandlerNext ==
    \/ \E c \in CampaignKeys : endDatePasses(c)
    \/ \E failAt \in 0..(2 * Len(CampaignOrder)) : handleExpiredCampaigns(failAt)

(***************************************************************************)
(* notificationWorker.ts : handleProgressAlert, handleLowProgressWarning   *)
(***************************************************************************)
MaxAlertRuns == 1

\* (currentAmount / goalAmount) * 100 as a JS number: NaN for 0 / 0, Infinity
\* for a positive amount over 0, the exact ratio otherwise.
Progress(currentAmount, goalAmount) ==
    IF goalAmount = 0
    THEN [kind |-> IF currentAmount = 0 THEN "NaN" ELSE "Infinity", num |-> 0, den |-> 0]
    ELSE [kind |-> "number", num |-> currentAmount * 100, den |-> goalAmount]

\* progress < n: false for NaN and for Infinity.
LessThan(p, n) == p.kind = "number" /\ p.num < n * p.den

\* progress.toFixed(1): the nearest multiple of one tenth, written with one
\* decimal; "NaN" and "Infinity" for those values.
ToFixed1(p) ==
    IF p.kind # "number" THEN p.kind
    ELSE LET tenths == (2 * 10 * p.num + p.den) \div (2 * p.den)
         IN ToString(tenths \div 10) \o "." \o ToString(tenths % 10)

\* String.prototype.replace with a string pattern: the first occurrence only.
RECURSIVE ReplaceFirst(_, _, _)
ReplaceFirst(pieces, placeholder, text) ==
    IF pieces = <<>> THEN <<>>
    ELSE IF Head(pieces) = placeholder THEN <<text>> \o Tail(pieces)
         ELSE <<Head(pieces)>> \o ReplaceFirst(Tail(pieces), placeholder, text)

\* Reading a field of an object: undefined (<<>>) when the object has none.
Field(obj, f) == IF f \in DOMAIN obj THEN obj[f] ELSE <<>>

\* A strategy with its scoping filters and its progress message; each of the
\* three is <<>> when not set, <<value>> when set.
ScopedStrategy(campaignId, organizationId, progressAlertMessage) ==
    [progressAlert |-> TRUE, lowProgressWarning |-> TRUE, campaignExpiredAlert |-> TRUE,
     progressAlertSchedule |-> SeedStrategy.progressAlertSchedule,
     campaignId |-> campaignId, organizationId |-> organizationId,
     progressAlertMessage |-> progressAlertMessage]

ProgressTemplate == <<"Progress: ", "{progress}", "%">>

\* The strategies of the stored Content document when the progress job fires.
AlertStrategies ==
    { ScopedStrategy(<<>>, <<>>, <<ProgressTemplate>>),
      ScopedStrategy(<<>>, << <<>> >>, << <<"Keep going">> >>),
      ScopedStrategy(<<"k1">>, <<>>, <<ProgressTemplate>>),
      ScopedStrategy(<<>>, << <<"o2">> >>, <<ProgressTemplate>>),
      ScopedStrategy(<<"k2">>, << <<"o1", "o2">> >>, <<ProgressTemplate>>),
      ScopedStrategy(<<>>, <<>>, <<>>) }

\* The data addProgressAlertJob puts on the job: {message, frequency, campingId,
\* organizationId}, each read from the strategy.
ProgressAlertData(ns) ==
    [message |-> Field(ns, "progressAlertMessage"),
     frequency |-> ns.progressAlertSchedule[1].frequency,
     campingId |-> Field(ns, "campingId"),
     organizationId |-> Field(ns, "organizationId")]

Range(seq) == { seq[i] : i \in 1..Len(seq) }

\* A progress query that does not look at the endDate.
ProgressQuery_anyEndDate(cs, data) ==
    { c \in DOMAIN cs :
        /\ cs[c].status = "active"
        /\ data.campingId # <<>> => c = data.campingId[1]
        /\ (data.organizationId # <<>> /\ Len(data.organizationId[1]) > 0)
              => cs[c].createdBy \in Range(data.organizationId[1]) }

\* Campaign.find(query): status active, endDate later than now, _id when
\* campingId is set, createdBy within organizationId when that list is not empty.
ProgressQuery(cs, data) ==
    { c \in DOMAIN cs :
        /\ cs[c].status = "active" /\ ~cs[c].ended
        /\ data.campingId # <<>> => c = data.campingId[1]
        /\ (data.organizationId # <<>> /\ Len(data.organizationId[1]) > 0)
              => cs[c].createdBy \in Range(data.organizationId[1]) }

\* The notification of the loop body for campaign c.
ProgressNotification(cs, c, message) ==
    Notification(cs[c].createdBy, "PROGRESS_ALERT", c,
                 ReplaceFirst(message, "{progress}",
                              ToFixed1(Progress(cs[c].currentAmount, cs[c].goalAmount))),
                 <<>>)

\* The first n notifications of a sequence, as a bag.
RECURSIVE Delivered(_, _)
Delivered(toSend, n) ==
    IF n = 0 \/ toSend = <<>> THEN EmptyBag
    ELSE SetToBag({Head(toSend)}) (+) Delivered(Tail(toSend), n - 1)

\* handleProgressAlert(data): one run. message.replace raises for the first
\* selected campaign when the data carries no message. failAt = 0: no awaited
\* sendNotifications raises; failAt = k: the k-th raises and the run ends there.
handleProgressAlert(data, failAt) ==
    /\ handlerLast.runs < MaxAlertRuns
    /\ LET selected == ProgressQuery(campaigns, data)
           order == InOrder(CampaignOrder, selected)
           noMessage == data.message = <<>> /\ selected # {}
           toSend == IF data.message = <<>> THEN <<>>
                     ELSE [i \in 1..Len(order) |->
                             ProgressNotification(campaigns, order[i], data.message[1])]
           ok == failAt = 0 /\ ~noMessage
           sent == Delivered(toSend, IF failAt = 0 THEN Len(toSend) ELSE failAt - 1)
       IN /\ failAt <= Len(toSend)
          /\ notifications' = notifications (+) sent
          /\ handlerLast' = HandlerRun("handleProgressAlert", handlerLast.runs + 1, data,
                                       selected, BagCardinality(sent), sent,
                                       IF ok THEN <<Cardinality(selected)>> ELSE <<>>, ok,
                                       IF noMessage THEN "TypeError"
                                       ELSE IF failAt = 0 THEN "none" ELSE "rejected")
    /\ UNCHANGED campaigns
    /\ UNCHANGED <<contentVars, inviteVars, workerVars, cronVars, raceVars>>

\* The registered sendProgressAlert job fires: the worker runs the handler on
\* the data the job was registered with, which is that of the stored strategy.
sendProgressAlertFires(failAt) ==
    /\ content.exists /\ content.ns # <<>>
    /\ handleProgressAlert(ProgressAlertData(content.ns[1]), failAt)

\* A low-progress test that also warns at the threshold itself.
IsLowProgress_inclusive(p) == p.kind = "number" /\ p.num <= 25 * p.den

\* if (progress < 25)
IsLowProgress(p) == LessThan(p, 25)

\* Campaign.find({status: 'active', endDate: {$gte: now, $lte: oneWeekFromNow}})
LowProgressQuery(cs) ==
    { c \in DOMAIN cs : cs[c].status = "active" /\ ~cs[c].ended /\ cs[c].endsWithinWeek }

\* The notification of the loop body for campaign c; data carries the progress.
LowProgressNotification(cs, c) ==
    Notification(cs[c].createdBy, "LOW_PROGRESS_WARNING", c,
                 <<c, " is below 25% with 1 week left">>,
                 <<Progress(cs[c].currentAmount, cs[c].goalAmount)>>)

\* The selected campaigns the loop warns, in order.
RECURSIVE Warned(_, _)
Warned(order, cs) ==
    IF order = <<>> THEN <<>>
    ELSE (IF IsLowProgress(Progress(cs[Head(order)].currentAmount, cs[Head(order)].goalAmount))
          THEN <<Head(order)>> ELSE <<>>) \o Warned(Tail(order), cs)

\* handleLowProgressWarning: one run; warningCount is what the last line logs.
handleLowProgressWarning(failAt) ==
    /\ handlerLast.runs < MaxAlertRuns
    /\ LET selected == LowProgressQuery(campaigns)
           warned == Warned(InOrder(CampaignOrder, selected), campaigns)
           toSend == [i \in 1..Len(warned) |-> LowProgressNotification(campaigns, warned[i])]
           sent == Delivered(toSend, IF failAt = 0 THEN Len(toSend) ELSE failAt - 1)
       IN /\ failAt <= Len(toSend)
          /\ notifications' = notifications (+) sent
          /\ handlerLast' = HandlerRun("handleLowProgressWarning", handlerLast.runs + 1, <<>>,
                                       selected, BagCardinality(sent), sent,
                                       IF failAt = 0 THEN <<Len(warned)>> ELSE <<>>,
                                       failAt = 0, IF failAt = 0 THEN "none" ELSE "rejected")
    /\ UNCHANGED campaigns
    /\ UNCHANGED <<contentVars, inviteVars, workerVars, cronVars, raceVars>>

\* The campaign collection when a job fires: k1 at 25% or 10% of its goal, active
\* or expired, ending later than a week from now, within the week, or ended; k2
\* at 40% or two thirds; k3 with a goalAmount of zero.
AlertCampaigns ==
    { [c \in CampaignKeys |->
         CASE c = "k1" -> Campaign(k1[1], k1[2] = "ended", k1[2] # "later", k1[3], 1000, OwnerOf(c), 0)
           [] c = "k2" -> Campaign("active", FALSE, k2[1], k2[2][1], k2[2][2], OwnerOf(c), 0)
           [] OTHER    -> Campaign("active", FALSE, k3[1], k3[2], 0, OwnerOf(c), 0)] :
        k1 \in {"active", "expired"} \X {"later", "week", "ended"} \X {250, 100},
        k2 \in BOOLEAN \X {<<400, 1000>>, <<2, 3>>},
        k3 \in BOOLEAN \X {0, 50} }

AlertsInit ==
    /\ content \in { Doc(TRUE, <<ns>>) : ns \in AlertStrategies }
    /\ store = {}
    /\ last = Outcome("none", <<>>, TRUE, FALSE, "none", FALSE, TRUE)
    /\ campaigns \in AlertCampaigns
    /\ notifications = EmptyBag
    /\ handlerLast = NoRun

AlertsNext ==
    \/ \E failAt \in 0..Len(CampaignOrder) : sendProgressAlertFires(failAt)
    \/ \E failAt \in 0..Len(CampaignOrder) : handleLowProgressWarning(failAt)

(***************************************************************************)
(* notificationWorker.ts : handleMilestoneAlert                            *)
(***************************************************************************)
\* A strategy with its milestone toggle and its milestone message (<<>> when
\* the field is missing, <<text>> when set; the empty text is <<>>).
MilestoneStrategy(mileStoneAlert, mileStoneAlertMessage) ==
    [progressAlert |-> TRUE, lowProgressWarning |-> TRUE, campaignExpiredAlert |-> TRUE,
     progressAlertSchedule |-> SeedStrategy.progressAlertSchedule,
     mileStoneAlert |-> mileStoneAlert, mileStoneAlertMessage |-> mileStoneAlertMessage]

MilestoneTemplate == <<"Reached ", "{milestone}", "%">>

\* The Content collection when a milestone job runs: no document, a document
\* without notificationStrategy, or a document whose strategy has no milestone
\* message, an empty one, the seeded one or one with the placeholder.
MilestoneContents ==
    { Doc(FALSE, <<>>), Doc(TRUE, <<>>) }
    \cup { Doc(TRUE, <<MilestoneStrategy(toggle, message)>>) :
             toggle \in BOOLEAN,
             message \in { <<>>, << <<>> >>, << <<"Campaign Milestone Alert">> >>,
                           <<MilestoneTemplate>> } }

\* `Congratulations! ${milestone}% achieved!`
GenericMilestoneMessage(milestone) == <<"Congratulations! ", ToString(milestone), "% achieved!">>

MessageResult(raised, message) == [raised |-> raised, message |-> message]

\* content?.notificationStrategy.mileStoneAlertMessage.replace('{milestone}',
\* milestone.toString()) || `Congratulations! ...`: ?. short-circuits only when
\* there is no document; reading mileStoneAlertMessage of an undefined strategy
\* and calling replace on an undefined message raise a TypeError; an empty
\* result is falsy and gives the generic message.
MilestoneMessage(doc, milestone) ==
    IF ~doc.exists THEN MessageResult(FALSE, GenericMilestoneMessage(milestone))
    ELSE IF doc.ns = <<>> THEN MessageResult(TRUE, <<>>)
    ELSE IF Field(doc.ns[1], "mileStoneAlertMessage") = <<>> THEN MessageResult(TRUE, <<>>)
    ELSE LET text == ReplaceFirst(Field(doc.ns[1], "mileStoneAlertMessage")[1], "{milestone}",
                                  ToString(milestone))
         IN MessageResult(FALSE, IF text = <<>> THEN GenericMilestoneMessage(milestone) ELSE text)

MilestoneData(campaignId, milestone) == [campaignId |-> campaignId, milestone |-> milestone]

\* handleMilestoneAlert(data): one run. A campaign that is not found ends the
\* run without a notification; sendRaises says whether the awaited
\* sendNotifications rejects.
handleMilestoneAlert(data, sendRaises) ==
    /\ handlerLast.runs < MaxAlertRuns
    /\ LET found == data.campaignId \in DOMAIN campaigns
           msg == MilestoneMessage(content, data.milestone)
           sends == found /\ ~msg.raised /\ ~sendRaises
           sent == IF sends
                   THEN SetToBag({Notification(campaigns[data.campaignId].createdBy,
                                               "MILESTONE_ALERT", data.campaignId, msg.message,
                                               <<data.milestone>>)})
                   ELSE EmptyBag
       IN /\ sendRaises => (found /\ ~msg.raised)
          /\ notifications' = notifications (+) sent
          /\ handlerLast' = HandlerRun("handleMilestoneAlert", handlerLast.runs + 1, data,
                                       IF found THEN {data.campaignId} ELSE {},
                                       BagCardinality(sent), sent, <<>>,
                                       ~found \/ sends,
                                       IF ~found \/ sends THEN "none"
                                       ELSE IF msg.raised THEN "TypeError" ELSE "rejected")
    /\ UNCHANGED campaigns
    /\ UNCHANGED <<contentVars, inviteVars, workerVars, cronVars, raceVars>>

MilestoneInit ==
    /\ content \in MilestoneContents
    /\ store = {}
    /\ last = Outcome("none", <<>>, TRUE, FALSE, "none", FALSE, TRUE)

MilestoneNext ==
    \E campaignId \in CampaignKeys \cup {"missing"}, milestone \in Milestones,
       sendRaises \in BOOLEAN :
        handleMilestoneAlert(MilestoneData(campaignId, milestone), sendRaises)

(***************************************************************************)
(* Concurrent upsertContent / seedContentSettings calls. Each await of the  *)
(* code is one step; steps of the two calls interleave freely.             *)
(***************************************************************************)
\* The calls started in one behaviour.
MaxRaceCalls == 3

\* The two request handlers that run at the same time.
Callers == {"a", "b"}

\* The payloads of the concurrent calls: two strategies that differ in their
\* schedule and toggles.
RacePayloads ==
    { <<Strategy(TRUE, TRUE, FALSE, <<Schedule(Weekly, "monday", <<"1", "0", ":", "0", "0">>)>>)>>,
      <<Strategy(TRUE, FALSE, TRUE, <<Schedule(Biweekly, Undefined, <<"0", "9", ":", "3", "0">>)>>)>> }

\* A call: its position (pc), which function it is (kind), its payload, the path
\* it took, the index of the document findOne returned (0: none), the
\* registrations its removal run still has to remove, and the next toggle of
\* setupNotificationJobs (1 progress, 2 low progress, 3 expired, 4 end).
Call(pc, kind, payload, path, found, listed, next) ==
    [pc |-> pc, kind |-> kind, payload |-> payload, path |-> path, found |-> found,
     listed |-> listed, next |-> next]

IdleCall == Call("idle", "none", <<>>, "none", 0, {}, 1)

\* A request arrives: upsertContent(payload) or seedContentSettings() starts.
startCall(p, kind, payload) ==
    /\ calls[p].pc \in {"idle", "done"}
    /\ started < MaxRaceCalls
    /\ started' = started + 1
    /\ calls' = [calls EXCEPT ![p] = Call("findOne", kind, payload, "none", 0, {}, 1)]
    /\ UNCHANGED <<docs, contentVars, inviteVars, workerVars, handlerVars, cronVars>>

\* await Content.findOne(): the first document of the collection, if any.
findOne(p) ==
    /\ calls[p].pc = "findOne"
    /\ LET found == IF docs = <<>> THEN 0 ELSE 1
           path == IF calls[p].kind = "seed"
                   THEN (IF found = 0 THEN "save" ELSE "return")
                   ELSE (IF found = 0 THEN "create" ELSE "update")
       IN calls' = [calls EXCEPT ![p].found = found, ![p].path = path,
                                 ![p].pc = IF path = "return" THEN "done" ELSE path]
    /\ UNCHANGED <<docs, started, contentVars, inviteVars, workerVars, handlerVars, cronVars>>

\* await Content.create(payload), then setupNotificationJobs when the new
\* document has a strategy.
createDoc(p) ==
    /\ calls[p].pc = "create"
    /\ docs' = Append(docs, calls[p].payload)
    /\ calls' = [calls EXCEPT ![p].pc = IF calls[p].payload # <<>> THEN "setup" ELSE "done"]
    /\ UNCHANGED <<started, contentVars, inviteVars, workerVars, handlerVars, cronVars>>

\* await content.save() of the seed's default document.
saveSeed(p) ==
    /\ calls[p].pc = "save"
    /\ docs' = Append(docs, <<SeedStrategy>>)
    /\ calls' = [calls EXCEPT ![p].pc = "done"]
    /\ UNCHANGED <<started, contentVars, inviteVars, workerVars, handlerVars, cronVars>>

\* await Content.findByIdAndUpdate(existingContent._id, payload, {new: true})
updateDoc(p) ==
    /\ calls[p].pc = "update"
    /\ docs' = [docs EXCEPT ![calls[p].found] = IF calls[p].payload # <<>> THEN calls[p].payload ELSE @]
    /\ calls' = [calls EXCEPT ![p].pc = IF calls[p].payload # <<>> THEN "list" ELSE "done"]
    /\ UNCHANGED <<started, contentVars, inviteVars, workerVars, handlerVars, cronVars>>

\* await scheduleQueue.getRepeatableJobs(): the loop will remove the listed
\* registrations whose key contains a fixed identity.
listJobs(p) ==
    /\ calls[p].pc = "list"
    /\ calls' = [calls EXCEPT ![p].listed = MatchingJobs(store),
                              ![p].pc = IF MatchingJobs(store) = {} THEN "setup" ELSE "remove"]
    /\ UNCHANGED <<docs, started, contentVars, inviteVars, workerVars, handlerVars, cronVars>>

\* await scheduleQueue.removeRepeatableByKey(job.key): removes the entry when it
\* is there and does nothing when it is not.
removeByKey(p, job) ==
    /\ calls[p].pc = "remove"
    /\ job \in calls[p].listed
    /\ store' = store \ {job}
    /\ calls' = [calls EXCEPT ![p].listed = @ \ {job},
                              ![p].pc = IF calls[p].listed = {job} THEN "setup" ELSE "remove"]
    /\ UNCHANGED <<content, last, docs, started, inviteVars, workerVars, handlerVars, cronVars>>

\* One toggle of setupNotificationJobs: the add is awaited when the toggle is on.
addNext(p) ==
    /\ calls[p].pc = "setup"
    /\ LET ns == calls[p].payload[1]
           k == calls[p].next
           r == CASE k = 1 -> IF ns.progressAlert
                              THEN addProgressAlertJob(store, ns, FALSE) ELSE Step(store, TRUE)
                  [] k = 2 -> IF ns.lowProgressWarning
                              THEN addLowProgressWarningJob(store, FALSE) ELSE Step(store, TRUE)
                  [] OTHER -> IF ns.campaignExpiredAlert
                              THEN addCampaignExpiredAlertJob(store, FALSE) ELSE Step(store, TRUE)
       IN /\ store' = r.store
          /\ calls' = [calls EXCEPT ![p].next = k + 1,
                                    ![p].pc = IF k = 3 \/ ~r.ok THEN "done" ELSE "setup"]
    /\ UNCHANGED <<content, last, docs, started, inviteVars, workerVars, handlerVars, cronVars>>

RaceInit ==
    /\ docs = <<>>
    /\ calls = [p \in Callers |-> IdleCall]
    /\ started = 0

RaceNext ==
    \/ \E p \in Callers : \E payload \in RacePayloads : startCall(p, "upsert", payload)
    \/ \E p \in Callers : startCall(p, "seed", <<>>)
    \/ \E p \in Callers : findOne(p)
    \/ \E p \in Callers : createDoc(p)
    \/ \E p \in Callers : saveSeed(p)
    \/ \E p \in Callers : updateDoc(p)
    \/ \E p \in Callers : listJobs(p)
    \/ \E p \in Callers : \E job \in calls[p].listed : removeByKey(p, job)
    \/ \E p \in Callers : addNext(p)

(***************************************************************************)
(* Specifications                                                          *)
(***************************************************************************)
Init == ContentInit /\ InviteInit /\ WorkerInit /\ HandlerInit /\ CronInit /\ RaceInit

SpecContent == Init /\ [][ContentNext]_vars

SpecInvite == Init /\ [][InviteNext]_vars

SpecWorker == Init /\ [][WorkerNext]_vars

SpecDrain == Init /\ [][DrainNext]_vars /\ DrainFairness

SpecHandlers == Init /\ [][HandlerNext]_vars

SpecCron == Init /\ [][CronNext]_vars

SpecRace == Init /\ [][RaceNext]_vars

InitAlerts == AlertsInit /\ InviteInit /\ WorkerInit /\ CronInit /\ RaceInit

SpecAlerts == InitAlerts /\ [][AlertsNext]_vars

InitMilestone == MilestoneInit /\ InviteInit /\ WorkerInit /\ HandlerInit /\ CronInit /\ RaceInit

SpecMilestone == InitMilestone /\ [][MilestoneNext]_vars

InitRemoval == RemovalInit /\ InviteInit /\ WorkerInit /\ HandlerInit /\ CronInit /\ RaceInit

SpecRemoval == InitRemoval /\ [][RemovalNext]_vars

(***************************************************************************)
(* Properties of the schedule reconciler                                   *)
(***************************************************************************)
FixedIdentities == {"progress-alert-job", "low-progress-warning-job", "campaign-expired-alert-job"}

\* The toggle of the feature a fixed identity belongs to.
ToggleOf(ns, id) ==
    CASE id = "progress-alert-job"         -> ns.progressAlert
      [] id = "low-progress-warning-job"   -> ns.lowProgressWarning
      [] id = "campaign-expired-alert-job" -> ns.campaignExpiredAlert

\* One registration for every enabled feature of ns and none for a disabled one.
OnePerEnabledFeature(st, ns) ==
    \A id \in FixedIdentities :
        Cardinality(RegistrationsOf(st, id)) = (IF ToggleOf(ns, id) THEN 1 ELSE 0)

\* C1: after any sequence of upsertContent calls that each ran to completion the
\* store holds at most one recurring registration for each of the three fixed
\* identities.
C1_AtMostOnePerIdentity ==
    last.allReturned =>
        \A id \in FixedIdentities : Cardinality(RegistrationsOf(store, id)) <= 1

\* C2: two consecutive update-path upsertContent calls with the same
\* notificationStrategy: the second leaves the store as the first left it, with
\* exactly one registration per enabled feature.
C2_SameStrategyTwice ==
    [][ ( /\ last.op = "update" /\ last.ok /\ last.ns # <<>>
          /\ last'.op = "update" /\ last'.ok /\ last'.ns = last.ns )
        => ( store' = store /\ OnePerEnabledFeature(store', last'.ns[1]) ) ]_vars

InviteStep == inviteCalls' = inviteCalls + 1

\* The inputs of the call fail one of the checks of section 4.5: self
\* invitation, campaign missing, inviter missing or without contact, referring
\* user missing.
InvalidInputs(call) ==
    \/ call.inviter = call.referrer
    \/ call.campaignId # "c1"
    \/ ~users[call.inviter].exists
    \/ ~users[call.inviter].contact
    \/ ~users[call.referrer].exists

\* C4: a call that commits with a donation amount A > 0 and n invitees creates
\* n invitation records, each flagged isDonated, and one donation record, and
\* adds A to the referring user's totalRaised, A to the inviter's totalDonated
\* and n to the inviter's totalInvited.
C4_CommitWithDonation ==
    [][ ( /\ InviteStep
          /\ inviteLast'.result = "ok"
          /\ inviteLast'.amount # <<>> /\ inviteLast'.amount[1] > 0 )
        => LET A == inviteLast'.amount[1]
               n == inviteLast'.n
               inviter == inviteLast'.inviter
               referrer == inviteLast'.referrer
           IN /\ BagCardinality(invitations') = BagCardinality(invitations) + n
              /\ \A r \in BagToSet(invitations') :
                    CopiesIn(r, invitations') > CopiesIn(r, invitations) => r.isDonated
              /\ BagCardinality(donations') = BagCardinality(donations) + 1
              /\ users'[referrer].totalRaised = users[referrer].totalRaised + A
              /\ users'[inviter].totalDonated = users[inviter].totalDonated + A
              /\ users'[inviter].totalInvited = users[inviter].totalInvited + n ]_vars

\* C4 witness: the first call commits 50 with 3 invitees: +50, +50, +3, 3 records,
\* 1 donation.
C4_Witness ==
    /\ inviteCalls = 1 /\ inviteLast.result = "ok"
    /\ inviteLast.amount = <<50>> /\ inviteLast.n = 3
    /\ BagCardinality(invitations) = 3 /\ BagCardinality(donations) = 1
    /\ users[inviteLast.referrer].totalRaised = 50
    /\ users[inviteLast.inviter].totalDonated = 50
    /\ users[inviteLast.inviter].totalInvited = 3

\* C5: when a step of the transaction raises (insert, donation create, either
\* counter update, commit), no invitation record, donation record or counter
\* change of the call survives and the caller gets the one generic error.
C5_FailureRollsBack ==
    [][ (InviteStep /\ inviteLast'.failStep # "none")
        => /\ invitations' = invitations
           /\ donations' = donations
           /\ users' = users
           /\ inviteLast'.result = "tx"
           /\ inviteLast'.error = "Failed to process invitation and donation" ]_vars

\* C5 witness: a failure after the insert of 3 invitations and the donation,
\* before the counter updates, on an empty database: zero records remain.
C5_Witness ==
    /\ inviteCalls = 1 /\ inviteLast.result = "tx"
    /\ inviteLast.failStep = "incTotalRaised" /\ inviteLast.n = 3
    /\ invitations = EmptyBag /\ donations = EmptyBag /\ users = InitialUsers

\* C6: a call whose inputs fail validation is reported as a validation error
\* and writes no invitation, no donation, changes no counter and sends no SMS.
C6_ValidationBeforeEffects ==
    [][ (InviteStep /\ InvalidInputs(inviteLast'))
        => /\ inviteLast'.result = "validation"
           /\ invitations' = invitations
           /\ donations' = donations
           /\ users' = users
           /\ smsSent' = smsSent ]_vars

\* C6 witness: a self-invitation with invitees and a donation is rejected after
\* an earlier call has committed records.
C6_Witness ==
    /\ inviteCalls = 2 /\ inviteLast.result = "validation"
    /\ inviteLast.error = "You can not invite yourself."
    /\ inviteLast.n = 3 /\ inviteLast.amount = <<50>>
    /\ BagCardinality(invitations) > 0

\* C7: with valid inputs and every persistence step succeeding, the call
\* commits its invitation records and succeeds, also when sendSMS fails.
C7_SmsFailureHarmless ==
    [][ (InviteStep /\ ~InvalidInputs(inviteLast') /\ inviteLast'.failStep = "none")
        => /\ inviteLast'.result = "ok"
           /\ BagCardinality(invitations') = BagCardinality(invitations) + inviteLast'.n ]_vars

(***************************************************************************)
(* Properties of the worker                                                *)
(***************************************************************************)
\* The handler section 4.4 names for each known job name.
HandlerOf(name) ==
    CASE name = "sendProgressAlert"     -> "handleProgressAlert"
      [] name = "checkLowProgress"      -> "handleLowProgressWarning"
      [] name = "checkExpiredCampaigns" -> "handleExpiredCampaigns"
      [] name = "sendMilestoneAlert"    -> "handleMilestoneAlert"

KnownNames == {"sendProgressAlert", "checkLowProgress", "checkExpiredCampaigns",
               "sendMilestoneAlert"}

\* C8: every run of the processor on a job with a known name calls exactly the
\* handler of that name; a job with an unknown name has no handler called, is
\* completed by its first run and is not run again.
C8_DispatchExactlyOne ==
    \A i \in 1..Len(jobs) :
        /\ \A k \in 1..Len(jobs[i].attempts) :
              IF jobs[i].name \in KnownNames
              THEN jobs[i].attempts[k].handlers = {HandlerOf(jobs[i].name)}
              ELSE jobs[i].attempts[k].handlers = {}
        /\ (jobs[i].name \notin KnownNames /\ jobs[i].attempts # <<>>)
              => (jobs[i].state = "completed" /\ Len(jobs[i].attempts) = 1)

\* C8 witness: a checkLowProgress job and a job with an unknown name have both
\* been processed.
C8_Witness ==
    /\ Len(jobs) = 2
    /\ jobs[1].name = "checkLowProgress" /\ jobs[1].attempts # <<>>
    /\ jobs[2].name = "somethingElse" /\ jobs[2].state = "completed"

\* C9: a run in which the handler raised is recorded as a failed attempt (its
\* signal is 'failed', never 'completed'); after it the job waits for a retry
\* while attempts remain, and no job is run more than MaxAttempts times.
C9_HandlerErrorFailsAttempt ==
    \A i \in 1..Len(jobs) :
        /\ Len(jobs[i].attempts) <= MaxAttempts
        /\ \A k \in 1..Len(jobs[i].attempts) :
              jobs[i].attempts[k].raised =>
                 /\ jobs[i].signals[k].kind = "failed"
                 /\ k = Len(jobs[i].attempts) =>
                       jobs[i].state = (IF k < MaxAttempts THEN "wait" ELSE "failed")

\* C9 witness: a job whose handler raised in its first run and that was run
\* again.
C9_Witness ==
    \E i \in 1..Len(jobs) :
        /\ Len(jobs[i].attempts) = 2
        /\ jobs[i].attempts[1].raised
        /\ jobs[i].signals[1].kind = "failed"

\* The positions of the signals of a job that end it.
FinalSignals(job) == { k \in 1..Len(job.signals) : job.signals[k].final }

\* C10: a job that is done has exactly one terminal signal, its last one:
\* 'completed' when its last run succeeded, 'failed' when the handler raised in
\* every one of MaxAttempts runs; a job still waiting has none; and the worker
\* keeps running whatever has failed.
C10_OneTerminalSignal ==
    /\ workerAlive
    /\ \A i \in 1..Len(jobs) :
          LET job == jobs[i]
              n == Len(job.signals)
          IN /\ job.state = "wait" => FinalSignals(job) = {}
             /\ job.state = "completed" =>
                   /\ FinalSignals(job) = {n}
                   /\ job.signals[n].kind = "completed"
                   /\ ~job.attempts[n].raised
             /\ job.state = "failed" =>
                   /\ FinalSignals(job) = {n}
                   /\ job.signals[n].kind = "failed"
                   /\ n = MaxAttempts
                   /\ \A k \in 1..n : job.attempts[k].raised

\* C10 witness: a job added after another job had failed for good has been
\* processed to completion.
C10_Witness ==
    \E i, j \in 1..Len(jobs) :
        /\ jobs[i].state = "failed"
        /\ jobs[j].afterFailure /\ jobs[j].state = "completed"

\* The runs of a job in which the handler did not raise.
SuccessfulRuns(job) == { k \in 1..Len(job.attempts) : ~job.attempts[k].raised }

\* C11: a one-shot job enqueued by triggerMilestoneAlert has at most one run in
\* which its handler succeeds: a run whose handler raised leaves it waiting for
\* a retry while attempts remain, the run whose handler succeeded is its last
\* one and completes it, and the queue never creates a further firing of it.
C11_OneShotAtMostOnce ==
    \A i \in 1..Len(jobs) :
        jobs[i].data # <<>> =>
            LET job == jobs[i]
                n == Len(job.attempts)
            IN /\ ~job.firing
               /\ Cardinality(SuccessfulRuns(job)) <= 1
               /\ SuccessfulRuns(job) \subseteq {n}
               /\ SuccessfulRuns(job) # {} => job.state = "completed"
               /\ (n > 0 /\ n < MaxAttempts /\ job.attempts[n].raised) => job.state = "wait"
               /\ \A k \in 1..n : job.attempts[k].handlers = {"handleMilestoneAlert"}

\* C11 witness: a milestone job whose handler raised in the first run and
\* succeeded in the retry is completed, and a job added after it is in the queue.
C11_Witness ==
    \E i \in 1..Len(jobs) :
        /\ jobs[i].data # <<>> /\ jobs[i].state = "completed"
        /\ Len(jobs[i].attempts) = 2
        /\ jobs[i].attempts[1].raised /\ ~jobs[i].attempts[2].raised
        /\ i < Len(jobs)

(***************************************************************************)
(* Properties of the handlers                                              *)
(***************************************************************************)
\* The expiry notifications delivered for campaign c.
ExpiredNotices(c) ==
    CopiesIn(ExpiredNotification(campaigns, c), notifications)

\* C12: the expired-campaign handler moves a campaign from active to expired
\* once: a run never selects a campaign that is already expired, so over any
\* number of runs a campaign's status is written at most once and its owner is
\* notified of the expiry at most once.
C12_ExpiresOnce ==
    /\ \A c \in CampaignKeys :
          /\ campaigns[c].statusWrites <= 1
          /\ ExpiredNotices(c) <= 1
          /\ campaigns[c].status = "expired" <=> campaigns[c].statusWrites = 1
    /\ \A c \in handlerLast.selected : campaigns[c].ended

\* C12 witness: the handler ran twice in sequence without an error on a campaign
\* that had ended; the second run selected nothing, and the campaign is expired
\* with one status write and one notification.
C12_Witness ==
    /\ handlerLast.handler = "handleExpiredCampaigns" /\ handlerLast.runs = 2
    /\ handlerLast.ok /\ handlerLast.selected = {}
    /\ campaigns["k1"].status = "expired" /\ campaigns["k1"].statusWrites = 1
    /\ ExpiredNotices("k1") = 1

(***************************************************************************)
(* Properties of the cron derivation                                       *)
(***************************************************************************)
Digits == {"0", "1", "2", "3", "4", "5", "6", "7", "8", "9"}

DigitValue(ch) ==
    CASE ch = "0" -> 0 [] ch = "1" -> 1 [] ch = "2" -> 2 [] ch = "3" -> 3 [] ch = "4" -> 4
      [] ch = "5" -> 5 [] ch = "6" -> 6 [] ch = "7" -> 7 [] ch = "8" -> 8 [] ch = "9" -> 9

\* The text is a number: one or more decimal digits.
IsNumber(chars) == chars # <<>> /\ \A i \in 1..Len(chars) : chars[i] \in Digits

\* The value of a text of decimal digits.
RECURSIVE ParseInt(_)
ParseInt(chars) ==
    IF chars = <<>> THEN 0
    ELSE 10 * ParseInt(SubSeq(chars, 1, Len(chars) - 1)) + DigitValue(chars[Len(chars)])

\* The time is a well-formed "HH:MM" text.
WellFormed(time) ==
    /\ Len(time) = 5
    /\ time[3] = ":"
    /\ \A i \in {1, 2, 4, 5} : time[i] \in Digits

\* The canonical number of a weekday.
CanonicalDay(day) ==
    CASE day = "sunday" -> 0 [] day = "monday" -> 1 [] day = "tuesday" -> 2
      [] day = "wednesday" -> 3 [] day = "thursday" -> 4 [] day = "friday" -> 5
      [] day = "saturday" -> 6

\* The parsed minute and hour of a well-formed time, as cron fields.
MinuteField(time) == ToString(ParseInt(SubSeq(time, 4, 5)))

HourField(time) == ToString(ParseInt(SubSeq(time, 1, 2)))

\* C13: for a weekly schedule with a day of the week and a time "HH:MM" the
\* registered cron expression is "<minute> <hour> * * <weekday>", minute and hour
\* the parsed values of the time and weekday the canonical number of the day
\* (weekly, monday, "10:00" gives "0 10 * * 1").
C13_WeeklyCron ==
    ( /\ cronLast.sched # <<>>
      /\ cronLast.sched[1].frequency = "weekly"
      /\ cronLast.sched[1].day \in DayNames
      /\ WellFormed(cronLast.sched[1].time) )
    => cronLast.patterns =
          { MinuteField(cronLast.sched[1].time) \o " " \o HourField(cronLast.sched[1].time)
            \o " * * " \o ToString(CanonicalDay(cronLast.sched[1].day)) }

\* C14: for a biweekly schedule with a time "HH:MM" the registered cron
\* expression is "<minute> <hour> 1,15 * *", minute and hour the parsed values of
\* the time, whatever the day field holds (biweekly, "09:30" gives "30 9 1,15 * *").
C14_BiweeklyCron ==
    ( /\ cronLast.sched # <<>>
      /\ cronLast.sched[1].frequency = "biweekly"
      /\ WellFormed(cronLast.sched[1].time) )
    => cronLast.patterns =
          { MinuteField(cronLast.sched[1].time) \o " " \o HourField(cronLast.sched[1].time)
            \o " 1,15 * *" }

\* The schedule is unsupported: a frequency other than weekly and biweekly, or
\* weekly without a day of the week.
Unsupported(sched) ==
    \/ sched.frequency \notin {"weekly", "biweekly"}
    \/ sched.frequency = "weekly" /\ sched.day \notin DayNames

\* C15: an unsupported progress-alert schedule makes the registration fail and
\* no 'progress-alert-job' registration is added.
C15_UnsupportedScheduleRejected ==
    (cronLast.sched # <<>> /\ Unsupported(cronLast.sched[1]))
    => (~cronLast.ok /\ cronLast.patterns = {})

\* C16: the minute and the hour of every cron expression are numbers, and when
\* the time is absent or not a well-formed "HH:MM" they are those of the default
\* time 09:00 (minute 0, hour 9).
C16_DefaultTime ==
    cronLast.sched # <<>> =>
        /\ IsNumber(cronLast.minute) /\ IsNumber(cronLast.hour)
        /\ ~WellFormed(cronLast.sched[1].time) =>
              (ParseInt(cronLast.minute) = 0 /\ ParseInt(cronLast.hour) = 9)

(***************************************************************************)
(* Properties of the reconciler's failure policy                           *)
(***************************************************************************)
\* A registration raised during the latest call: an add raised, or the progress
\* alert is enabled without a schedule.
RegistrationRaised ==
    /\ last.ns # <<>>
    /\ \/ last.addFail # "none"
       \/ last.ns[1].progressAlert /\ last.ns[1].progressAlertSchedule = <<>>

\* C17: an error raised while listing or removing the old registrations is
\* swallowed: the call fails only if a registration raised, and when none did
\* the registration step has run, so every enabled feature of the new strategy
\* is registered, the progress alert under the new schedule's pattern.
C17_RemovalErrorSwallowed ==
    (last.op = "update" /\ last.ns # <<>> /\ last.rmFailed) =>
        /\ last.ok <=> ~RegistrationRaised
        /\ last.ok =>
              /\ \A id \in FixedIdentities :
                    ToggleOf(last.ns[1], id) => RegistrationsOf(store, id) # {}
              /\ last.ns[1].progressAlert =>
                    \E job \in RegistrationsOf(store, "progress-alert-job") :
                        job.pattern = CronExpression(last.ns[1].progressAlertSchedule[1])

\* C17 witness: an update whose removal run hit an error returned normally and
\* registered the progress alert of its strategy.
C17_Witness ==
    /\ last.op = "update" /\ last.ns # <<>> /\ last.rmFailed /\ last.ok /\ last.changed
    /\ last.ns[1].progressAlert
    /\ RegistrationsOf(store, "progress-alert-job") # {}

\* C18: when a registration raised, on the create path or on the update path,
\* upsertContent does not return a success result.
C18_RegistrationErrorPropagates ==
    (last.op \in {"create", "update"} /\ RegistrationRaised) => ~last.ok

\* C18 witness: on the update path the add of the expired-campaign job raised
\* after the progress alert had been registered, and the call failed.
C18_Witness ==
    /\ last.op = "update" /\ last.addFail = "expired" /\ ~last.ok
    /\ last.ns[1].progressAlert
    /\ RegistrationsOf(store, "progress-alert-job") # {}

(***************************************************************************)
(* Properties of concurrent calls                                          *)
(***************************************************************************)
\* C19: once two concurrent reconciliations (update-path calls that list,
\* remove by key and add) have both finished, the store holds at most one
\* registration per fixed identity.
C19_ConcurrentReconciliations ==
    (\A p \in Callers : calls[p].pc = "done" /\ calls[p].path = "update") =>
        \A id \in FixedIdentities : Cardinality(RegistrationsOf(store, id)) <= 1

\* C20: at most one Content document exists, whatever calls of upsertContent
\* and seedContentSettings were made and however their steps interleaved.
C20_OneContentDocument == Len(docs) <= 1

(***************************************************************************)
(* Further properties of invitePeopleToCampaign                            *)
(***************************************************************************)
\* What the donation records add up to.
RECURSIVE Raised(_)
Raised(dons) ==
    IF dons = EmptyBag THEN 0
    ELSE LET d == CHOOSE x \in BagToSet(dons) : TRUE
         IN d.amountPaid + Raised(dons (-) SetToBag({d}))

\* The donations of the step take the campaign from below m percent of its goal
\* to m percent or more.
Crosses(m) ==
    /\ Raised(donations) * 100 < m * DonationGoal
    /\ Raised(donations') * 100 >= m * DonationGoal

\* The entries of the queue with a given name and campaign.
MilestoneJobs(js, campaignId) ==
    { i \in 1..Len(js) : /\ js[i].name = "sendMilestoneAlert"
                          /\ js[i].data # <<>>
                          /\ js[i].data[1] = campaignId }

\* C25: when a committed donation makes the campaign cross a milestone
\* threshold, the call enqueues a sendMilestoneAlert job for that campaign.
C25_MilestoneJobEnqueued ==
    [][ ( /\ InviteStep
          /\ inviteLast'.result = "ok"
          /\ \E m \in Milestones : Crosses(m) )
        => Cardinality(MilestoneJobs(jobs', inviteLast'.campaignId))
              > Cardinality(MilestoneJobs(jobs, inviteLast'.campaignId)) ]_vars

\* C30: a call that commits with no donation amount, or with an amount that is
\* not greater than zero, creates one invitation record per invitee, none of
\* them flagged isDonated, creates no donation record and changes no counter of
\* any user.
C30_CommitWithoutDonation ==
    [][ ( /\ InviteStep
          /\ inviteLast'.result = "ok"
          /\ (inviteLast'.amount = <<>> \/ inviteLast'.amount[1] <= 0) )
        => /\ BagCardinality(invitations') = BagCardinality(invitations) + inviteLast'.n
           /\ \A r \in BagToSet(invitations') :
                 CopiesIn(r, invitations') > CopiesIn(r, invitations) => ~r.isDonated
           /\ donations' = donations
           /\ users' = users ]_vars

\* C30 witness: after a call that committed 50, a call with amount 0 and three
\* invitees commits: three more records, still one donation, counters as the
\* first call left them.
C30_Witness ==
    /\ inviteCalls = 2 /\ inviteLast.result = "ok"
    /\ inviteLast.amount = <<0>> /\ inviteLast.n = 3
    /\ BagCardinality(donations) = 1
    /\ \E r \in BagToSet(invitations) : ~r.isDonated /\ CopiesIn(r, invitations) >= 2
    /\ \E u \in DOMAIN users : users[u].totalDonated = 50

(***************************************************************************)
(* Further properties of upsertContent                                     *)
(***************************************************************************)
\* C28: a call of upsertContent that fails because a registration raised leaves
\* the persisted Content document, its notificationStrategy included, as it
\* was before the call.
C28_FailedUpsertNotStored ==
    [][ (last'.op \in {"create", "update"} /\ ~last'.ok /\ last'.addFail # "none")
        => content' = content ]_vars

(***************************************************************************)
(* Further properties of the handlers                                      *)
(***************************************************************************)
\* C26: once a run of the expired-campaign handler has returned, a retry after
\* a run in which sendNotifications raised included, every campaign with status
\* expired has had its expiry notification sent to its owner.
C26_ExpiredIsNotified ==
    (handlerLast.handler = "handleExpiredCampaigns" /\ handlerLast.ok)
        => \A c \in CampaignKeys : campaigns[c].status = "expired" => ExpiredNotices(c) >= 1

(***************************************************************************)
(* Further properties of the removal run                                   *)
(***************************************************************************)
\* C27: after a removal run in which removeRepeatableByKey raised on one
\* registration, every other registration whose key contains a fixed identity
\* is gone from the store.
C27_OtherRemovalsProceed ==
    (last.op = "remove" /\ last.failedOn # {}) => MatchingJobs(store) \subseteq last.failedOn

(***************************************************************************)
(* Properties of the progress-alert and low-progress handlers              *)
(***************************************************************************)
\* The campaign has status active and its endDate is later than now.
ActiveUnexpired(c) == campaigns[c].status = "active" /\ ~campaigns[c].ended

\* The notifications of the last run for campaign c.
SentFor(c) == { n \in BagToSet(handlerLast.sent) : n.campaignId = c }

\* The last run sent exactly one notification for campaign c.
SentOnce(c) == \E n \in SentFor(c) : SentFor(c) = {n} /\ CopiesIn(n, handlerLast.sent) = 1

\* The campaigns the last run notified for.
NotifiedCampaigns == { n.campaignId : n \in BagToSet(handlerLast.sent) }

\* currentAmount / goalAmount * 100 with one decimal, for a goal above zero: the
\* number of tenths nearest to the ratio, written as digits, point, digit.
NearestTenths(currentAmount, goalAmount) ==
    CHOOSE t \in 0..(1000 * currentAmount + 1) :
        /\ 2 * (1000 * currentAmount - t * goalAmount) <= goalAmount
        /\ 2 * (t * goalAmount - 1000 * currentAmount) < goalAmount

OneDecimal(currentAmount, goalAmount) ==
    LET t == NearestTenths(currentAmount, goalAmount)
    IN ToString(t \div 10) \o "." \o ToString(t % 10)

\* The template with every placeholder replaced by text.
Substitute(template, placeholder, text) ==
    [i \in 1..Len(template) |-> IF template[i] = placeholder THEN text ELSE template[i]]

\* The run was given no campaign filter and no organization filter.
Unfiltered(data) ==
    /\ data.campingId = <<>>
    /\ data.organizationId = <<>> \/ data.organizationId = << <<>> >>

\* C21: a sendProgressAlert run that met no failure sent, for each campaign
\* with status active and endDate later than now, exactly one notification, to
\* the owner, whose message is the template with {progress} replaced by
\* currentAmount / goalAmount * 100 with one decimal; it sent nothing for a
\* campaign that is expired or whose endDate has passed.
C21_ProgressAlertPerCampaign ==
    (handlerLast.handler = "handleProgressAlert" /\ handlerLast.ok) =>
        /\ \A n \in BagToSet(handlerLast.sent) :
              n.type = "PROGRESS_ALERT" /\ n.campaignId \in CampaignKeys
        /\ \A c \in CampaignKeys :
              /\ ~ActiveUnexpired(c) => SentFor(c) = {}
              /\ (ActiveUnexpired(c) /\ Unfiltered(handlerLast.data)) => SentOnce(c)
              /\ \A n \in SentFor(c) :
                    /\ CopiesIn(n, handlerLast.sent) = 1
                    /\ n.userId = campaigns[c].createdBy
                    /\ campaigns[c].goalAmount > 0 =>
                          n.message = Substitute(handlerLast.data.message[1], "{progress}",
                                                 OneDecimal(campaigns[c].currentAmount,
                                                            campaigns[c].goalAmount))

\* C21 witness: an unfiltered run over three active unexpired campaigns sent
\* three notifications; the one for k1, at 250 of 1000, reads "Progress: 25.0%".
C21_Witness ==
    /\ handlerLast.handler = "handleProgressAlert" /\ handlerLast.ok
    /\ Unfiltered(handlerLast.data)
    /\ campaigns["k1"].currentAmount = 250 /\ campaigns["k1"].goalAmount = 1000
    /\ BagCardinality(handlerLast.sent) = 3
    /\ \E n \in SentFor("k1") : n.message = <<"Progress: ", "25.0", "%">> /\ n.userId = "o1"

\* Progress strictly below 25 percent, for a campaign whose progress is defined.
Below25(c) ==
    campaigns[c].goalAmount > 0 /\ campaigns[c].currentAmount * 100 < 25 * campaigns[c].goalAmount

\* C22: a low-progress run that returned notified the owner of a campaign if
\* and only if the campaign is active, its endDate lies between now and seven
\* days from now, and its progress is strictly below 25%; the count it reports
\* is the number of warnings it sent.
C22_LowProgressWarned ==
    (handlerLast.handler = "handleLowProgressWarning" /\ handlerLast.ok) =>
        /\ \A c \in CampaignKeys :
              /\ SentFor(c) # {} <=> (/\ ActiveUnexpired(c)
                                      /\ campaigns[c].endsWithinWeek
                                      /\ Below25(c))
              /\ \A n \in SentFor(c) :
                    /\ CopiesIn(n, handlerLast.sent) = 1
                    /\ SentFor(c) = {n}
                    /\ n.type = "LOW_PROGRESS_WARNING"
                    /\ n.userId = campaigns[c].createdBy
        /\ handlerLast.reported = <<BagCardinality(handlerLast.sent)>>

\* C22 witness: k1 at 10% and k2 at 40% both end within the week; the run warned
\* the owner of k1 only and reported one warning.
C22_Witness ==
    /\ handlerLast.handler = "handleLowProgressWarning" /\ handlerLast.ok
    /\ ActiveUnexpired("k1") /\ campaigns["k1"].endsWithinWeek
    /\ campaigns["k1"].currentAmount = 100
    /\ campaigns["k2"].endsWithinWeek /\ campaigns["k2"].currentAmount = 400
    /\ SentFor("k1") # {} /\ SentFor("k2") = {}
    /\ handlerLast.reported = <<1>>

\* The text or value stands for an undefined progress.
IsUndefinedProgress(x) == x \in {"NaN", "Infinity"}

\* C23: no notification for a campaign whose goalAmount is zero carries NaN or
\* Infinity in its message or in its data.
C23_NoUndefinedProgress ==
    \A n \in BagToSet(notifications) :
        campaigns[n.campaignId].goalAmount = 0 =>
            /\ \A i \in 1..Len(n.message) : ~IsUndefinedProgress(n.message[i])
            /\ \A i \in 1..Len(n.data) : ~IsUndefinedProgress(n.data[i].kind)

\* C29: the data of the sendProgressAlert job carries the campaign id and the
\* organization ids the stored strategy names, and a run that returned notified
\* exactly the active unexpired campaigns that match them: that campaign id,
\* and an owner within a non-empty organization list.
C29_FiltersApplied ==
    (handlerLast.handler = "handleProgressAlert" /\ handlerLast.ok) =>
        LET ns == content.ns[1]
        IN /\ handlerLast.data.campingId = ns.campaignId
           /\ handlerLast.data.organizationId = ns.organizationId
           /\ NotifiedCampaigns =
                { c \in CampaignKeys :
                    /\ ActiveUnexpired(c)
                    /\ ns.campaignId # <<>> => c = ns.campaignId[1]
                    /\ (ns.organizationId # <<>> /\ ns.organizationId[1] # <<>>)
                          => campaigns[c].createdBy \in Range(ns.organizationId[1]) }

(***************************************************************************)
(* Properties of the milestone handler                                     *)
(***************************************************************************)
\* The milestone template of the Content document, <<>> when none is
\* configured: no document, no strategy, no message field, or an empty message.
ConfiguredTemplate ==
    IF content.exists /\ content.ns # <<>>
       /\ Field(content.ns[1], "mileStoneAlertMessage") \notin {<<>>, << <<>> >>}
    THEN Field(content.ns[1], "mileStoneAlertMessage")
    ELSE <<>>

\* C24: a run of the milestone handler for an existing campaign, whose
\* sendNotifications did not reject, returned and sent exactly one notification
\* to the owner: the configured template with {milestone} substituted, or the
\* generic message whenever no template is configured.
C24_MilestoneAlwaysNotifies ==
    ( /\ handlerLast.handler = "handleMilestoneAlert"
      /\ handlerLast.data.campaignId \in CampaignKeys
      /\ handlerLast.error # "rejected" )
    => /\ handlerLast.ok
       /\ BagCardinality(handlerLast.sent) = 1
       /\ \A n \in BagToSet(handlerLast.sent) :
             /\ n.userId = campaigns[handlerLast.data.campaignId].createdBy
             /\ n.message =
                   IF ConfiguredTemplate = <<>>
                   THEN <<"Congratulations! ", ToString(handlerLast.data.milestone), "% achieved!">>
                   ELSE Substitute(ConfiguredTemplate[1], "{milestone}",
                                   ToString(handlerLast.data.milestone))

(***************************************************************************)
(* Frame of an update without a strategy, SMS and commit, milestone toggle *)
(***************************************************************************)
\* C32: an update-path call of upsertContent whose payload carries no
\* notificationStrategy leaves the registrations of the store as they were.
C32_NoStrategyNoJobChange ==
    [][ (last'.op = "update" /\ last'.ns = <<>>) => store' = store ]_vars

\* C32 witness: an update without a strategy returned while the store holds the
\* registrations of an earlier call.
C32_Witness ==
    /\ last.op = "update" /\ last.ns = <<>> /\ last.ok /\ ~last.changed
    /\ RegistrationsOf(store, ProgressJobId) # {}
    /\ RegistrationsOf(store, ExpiredJobId) # {}

\* C34: a call of invitePeopleToCampaign that does not commit, because its
\* transaction aborted or because it failed before the transaction started,
\* has sent no invitation SMS.
C34_SmsOnlyWhenCommitted ==
    [][ (InviteStep /\ inviteLast'.result # "ok") => smsSent' = smsSent ]_vars

\* C35: while the stored strategy has mileStoneAlert disabled, a run of the
\* milestone handler sends no notification.
C35_DisabledMilestoneSilent ==
    ( /\ handlerLast.handler = "handleMilestoneAlert"
      /\ content.exists /\ content.ns # <<>>
      /\ ~content.ns[1].mileStoneAlert )
    => handlerLast.sent = EmptyBag

(***************************************************************************)
(* Further properties of concurrent calls                                  *)
(***************************************************************************)
\* C33: once two concurrent update-path calls of upsertContent with different
\* strategies have both finished, a feature has a registration in the store if
\* and only if it is enabled in the strategy of the persisted document.
C33_StoreMatchesPersisted ==
    ( /\ \A p \in Callers : calls[p].pc = "done" /\ calls[p].path = "update"
      /\ \E p, q \in Callers : calls[p].payload # calls[q].payload )
    => /\ Len(docs) >= 1 /\ docs[1] # <<>>
       /\ \A id \in FixedIdentities :
             RegistrationsOf(store, id) # {} <=> ToggleOf(docs[1][1], id)

(***************************************************************************)
(* Liveness of the worker                                                  *)
(***************************************************************************)
\* C31: with a fair worker and handlers that do not fail, every job of the
\* queue with a known name, a firing of a recurring registration or a one-shot
\* job, is eventually run by the worker with the handler of its name.
C31_EveryJobHandled ==
    \A i \in 1..MaxJobs :
        (i <= Len(jobs) /\ jobs[i].name \in KnownNames)
        ~> ( /\ i <= Len(jobs)
             /\ jobs[i].name \in KnownNames
             /\ jobs[i].attempts # <<>>
             /\ jobs[i].attempts[1].handlers = {HandlerOf(jobs[i].name)} )

\* C31 witness: a one-shot milestone job and a firing of a recurring
\* registration were both added and both run by their handlers.
C31_Witness ==
    /\ Len(jobs) = 2
    /\ jobs[1].name = "sendMilestoneAlert" /\ ~jobs[1].repeat
    /\ jobs[1].attempts # <<>> /\ jobs[1].attempts[1].handlers = {"handleMilestoneAlert"}
    /\ jobs[2].name = "checkExpiredCampaigns" /\ jobs[2].repeat
    /\ jobs[2].attempts # <<>> /\ jobs[2].state = "completed"
====
